---- MODULE Spec2Model ----
(***************************************************************************)
(* Parameter substitution pass of lance-graph                              *)
(* (crates/lance-graph/src/parameter_substitution.rs).                     *)
(*                                                                         *)
(* The AST, the JSON values and the walker functions are modelled as       *)
(* tagged records and (recursive) operators.  substitute_parameters is a   *)
(* state machine with one action per top-level step of its body.           *)
(***************************************************************************)
EXTENDS Integers, Sequences, FiniteSets, TLC

VARIABLES
    query,       \* the CypherQuery being mutated in place (&mut query)
    parameters,  \* the parameter map (&HashMap<String, serde_json::Value>)
    hasher,      \* iteration order of the property HashMaps of this run
    pc,          \* position inside substitute_parameters
    result,      \* Result<()> of the call, once it has returned
    query0       \* history: the query as it was passed in

vars == <<query, parameters, hasher, pc, result, query0>>

(***************************************************************************)
(* Bounds of the model.                                                    *)
(***************************************************************************)
\* Width, in bits, standing for the 64 bits of i64/u64 (TLC integers are
\* 32 bits wide, so the integer ranges are scaled down).
IntBits == 3
\* Longest JSON array bound to a parameter.
MaxArrayLen == 2

I64_MAX == 2^(IntBits - 1) - 1
I64_MIN == -(2^(IntBits - 1))
U64_MAX == 2^IntBits - 1

(***************************************************************************)
(* Option<T>                                                               *)
(***************************************************************************)
None == <<>>
Some(x) == <<x>>

(***************************************************************************)
(* serde_json::Value.  A Number is one of serde_json's three               *)
(* representations; a float is held as a count of halves (h stands for     *)
(* h/2), so that 2.5 and 2.0 are both representable.                       *)
(***************************************************************************)
PosInt(u) == [repr |-> "PosInt", v |-> u]
NegInt(i) == [repr |-> "NegInt", v |-> i]
FloatN(h) == [repr |-> "Float", v |-> h]

JNull == [j |-> "Null"]
JBool(b) == [j |-> "Bool", b |-> b]
JNumber(n) == [j |-> "Number", n |-> n]
JString(s) == [j |-> "String", s |-> s]
JArray(arr) == [j |-> "Array", arr |-> arr]
JObject == [j |-> "Object"]

\* serde_json::Number::as_i64: an integer that fits i64, else None.
as_i64(n) ==
    CASE n.repr = "PosInt" -> IF n.v <= I64_MAX THEN Some(n.v) ELSE None
      [] n.repr = "NegInt" -> Some(n.v)
      [] n.repr = "Float" -> None

\* serde_json::Number::as_f64: every representation converts (in halves).
as_f64(n) ==
    CASE n.repr = "PosInt" -> Some(2 * n.v)
      [] n.repr = "NegInt" -> Some(2 * n.v)
      [] n.repr = "Float" -> Some(n.v)

\* serde_json::Value::as_f64: Some for a Number, None for anything else.
value_as_f64(v) == IF v.j = "Number" THEN as_f64(v.n) ELSE None

\* `f as f32`: f32 keeps fewer significant bits than f64.  Halves up to
\* 2^IntBits are exact; beyond, the half bit is rounded away (ties to even).
F32(h) ==
    IF h % 2 = 0 \/ (h <= 2^IntBits /\ -h <= 2^IntBits) THEN h
    ELSE IF (h + 1) % 4 = 0 THEN h + 1 ELSE h - 1

(***************************************************************************)
(* ast::PropertyValue                                                      *)
(***************************************************************************)
PVNull == [t |-> "Null"]
PVBoolean(b) == [t |-> "Boolean", b |-> b]
PVInteger(i) == [t |-> "Integer", i |-> i]
PVFloat(f) == [t |-> "Float", f |-> f]
PVString(s) == [t |-> "String", s |-> s]
PVParameter(name) == [t |-> "Parameter", name |-> name]

(***************************************************************************)
(* ast::ValueExpression                                                    *)
(***************************************************************************)
Parameter(name) == [e |-> "Parameter", name |-> name]
Literal(pv) == [e |-> "Literal", value |-> pv]
VectorLiteral(floats) == [e |-> "VectorLiteral", floats |-> floats]
Variable(v) == [e |-> "Variable", var |-> v]
ScalarFunction(name, args) == [e |-> "ScalarFunction", name |-> name, args |-> args]
AggregateFunction(name, args) == [e |-> "AggregateFunction", name |-> name, args |-> args]
Arithmetic(l, r) == [e |-> "Arithmetic", left |-> l, right |-> r]
VectorDistance(l, r) == [e |-> "VectorDistance", left |-> l, right |-> r]
VectorSimilarity(l, r) == [e |-> "VectorSimilarity", left |-> l, right |-> r]

(***************************************************************************)
(* ast::BooleanExpression                                                  *)
(***************************************************************************)
Comparison(l, op, r) == [b |-> "Comparison", left |-> l, operator |-> op, right |-> r]
And(l, r) == [b |-> "And", left |-> l, right |-> r]
Or(l, r) == [b |-> "Or", left |-> l, right |-> r]
Not(inner) == [b |-> "Not", inner |-> inner]
Exists(p) == [b |-> "Exists", property |-> p]
In(x, list) == [b |-> "In", expression |-> x, list |-> list]
Like(x, pat) == [b |-> "Like", expression |-> x, pattern |-> pat]
Contains(x, pat) == [b |-> "Contains", expression |-> x, pattern |-> pat]
IsNull(x) == [b |-> "IsNull", expression |-> x]
IsNotNull(x) == [b |-> "IsNotNull", expression |-> x]

(***************************************************************************)
(* Patterns and clauses                                                    *)
(***************************************************************************)
NodePattern(props) == [properties |-> props]
RelationshipPattern(props) == [properties |-> props]
Segment(rel, end) == [relationship |-> rel, end_node |-> end]
GNode(node) == [g |-> "Node", node |-> node]
GPath(start, segs) == [g |-> "Path", path |-> [start_node |-> start, segments |-> segs]]
Match(patterns) == [r |-> "Match", match_clause |-> [patterns |-> patterns]]
Unwind(x) == [r |-> "Unwind", unwind_clause |-> [expression |-> x]]
Item(x) == [expression |-> x]
WhereClause(x) == [expression |-> x]
WithClause(items, ob) == [items |-> items, order_by |-> ob]
ReturnClause(items) == [items |-> items]
OrderByClause(items) == [items |-> items]

(***************************************************************************)
(* GraphError::PlanError messages: the pieces format! puts together.       *)
(***************************************************************************)
MissingParameterMessage(name) == <<"Missing parameter: $", name>>

InvalidListMessage(name) ==
    <<"Parameter $", name,
      " is a list but contains non-numeric values. Only float vectors are supported as list parameters currently.">>

ComplexTypeMessage ==
    <<"Complex types (List, Map) are not fully supported as parameters yet (except float vectors).">>

(***************************************************************************)
(* Result<T> of the walker functions.  ast is the visited subtree as the   *)
(* function leaves it: on an error it holds what was mutated before the    *)
(* `?` returned.  culprit is a history field: the reference whose          *)
(* substitution raised the error.                                          *)
(***************************************************************************)
Ok(a) == [ok |-> TRUE, ast |-> a, message |-> <<>>, culprit |-> None]
Err(a, m, c) == [ok |-> FALSE, ast |-> a, message |-> m, culprit |-> Some(c)]
Culprit(name, position) == [name |-> name, position |-> position]

\* Mutant of parameters_get: a missing name reads as null (unwrap_or_default)
\* instead of None.
parameters_get_or_null(params, name) ==
    IF name \in DOMAIN params THEN Some(params[name]) ELSE Some(JNull)

\* HashMap::get
parameters_get(params, name) ==
    IF name \in DOMAIN params THEN Some(params[name]) ELSE None

(***************************************************************************)
(* Value Coercer                                                           *)
(***************************************************************************)
\* Mutant of json_to_property_value: as_f64 is tried before as_i64, so every
\* number becomes a float.
json_to_property_value_float_first(value) ==
    CASE value.j = "Null" -> [ok |-> TRUE, pv |-> PVNull, message |-> <<>>]
      [] value.j = "Bool" -> [ok |-> TRUE, pv |-> PVBoolean(value.b), message |-> <<>>]
      [] value.j = "Number" ->
            IF as_f64(value.n) # None
            THEN [ok |-> TRUE, pv |-> PVFloat(as_f64(value.n)[1]), message |-> <<>>]
            ELSE IF as_i64(value.n) # None
            THEN [ok |-> TRUE, pv |-> PVInteger(as_i64(value.n)[1]), message |-> <<>>]
            ELSE [ok |-> TRUE, pv |-> PVNull, message |-> <<>>]
      [] value.j = "String" -> [ok |-> TRUE, pv |-> PVString(value.s), message |-> <<>>]
      [] value.j \in {"Array", "Object"} ->
            [ok |-> FALSE, pv |-> PVNull, message |-> ComplexTypeMessage]

\* Mutant of json_to_property_value: arrays and objects fall back to null
\* instead of raising the error.
json_to_property_value_lenient(value) ==
    CASE value.j = "Null" -> [ok |-> TRUE, pv |-> PVNull, message |-> <<>>]
      [] value.j = "Bool" -> [ok |-> TRUE, pv |-> PVBoolean(value.b), message |-> <<>>]
      [] value.j = "Number" ->
            IF as_i64(value.n) # None
            THEN [ok |-> TRUE, pv |-> PVInteger(as_i64(value.n)[1]), message |-> <<>>]
            ELSE IF as_f64(value.n) # None
            THEN [ok |-> TRUE, pv |-> PVFloat(as_f64(value.n)[1]), message |-> <<>>]
            ELSE [ok |-> TRUE, pv |-> PVNull, message |-> <<>>]
      [] value.j = "String" -> [ok |-> TRUE, pv |-> PVString(value.s), message |-> <<>>]
      [] value.j \in {"Array", "Object"} ->
            [ok |-> TRUE, pv |-> PVNull, message |-> <<>>]

\* json_to_property_value: Result<PropertyValue>.
json_to_property_value(value) ==
    CASE value.j = "Null" -> [ok |-> TRUE, pv |-> PVNull, message |-> <<>>]
      [] value.j = "Bool" -> [ok |-> TRUE, pv |-> PVBoolean(value.b), message |-> <<>>]
      [] value.j = "Number" ->
            IF as_i64(value.n) # None
            THEN [ok |-> TRUE, pv |-> PVInteger(as_i64(value.n)[1]), message |-> <<>>]
            ELSE IF as_f64(value.n) # None
            THEN [ok |-> TRUE, pv |-> PVFloat(as_f64(value.n)[1]), message |-> <<>>]
            ELSE [ok |-> TRUE, pv |-> PVNull, message |-> <<>>]
      [] value.j = "String" -> [ok |-> TRUE, pv |-> PVString(value.s), message |-> <<>>]
      [] value.j \in {"Array", "Object"} ->
            [ok |-> FALSE, pv |-> PVNull, message |-> ComplexTypeMessage]

\* Mutant of array_to_floats: an element that is not a number is skipped
\* (filter_map) instead of ending the loop with the error.
RECURSIVE array_to_floats_skipping(_, _, _)
array_to_floats_skipping(arr, i, floats) ==
    IF i > Len(arr) THEN Some(floats)
    ELSE IF value_as_f64(arr[i]) # None
         THEN array_to_floats_skipping(arr, i + 1,
                                       Append(floats, F32(value_as_f64(arr[i])[1])))
         ELSE array_to_floats_skipping(arr, i + 1, floats)

\* The loop of substitute_in_value_expression over the array's elements:
\* Some(floats) when every element is a number, None at the first that is not.
RECURSIVE array_to_floats(_, _, _)
array_to_floats(arr, i, floats) ==
    IF i > Len(arr) THEN Some(floats)
    ELSE IF value_as_f64(arr[i]) # None
         THEN array_to_floats(arr, i + 1, Append(floats, F32(value_as_f64(arr[i])[1])))
         ELSE None

(***************************************************************************)
(* The `?` operator over an in-place mutation.                             *)
(***************************************************************************)
\* The result r of walking a child, seen from the parent: Put(a) is the
\* parent with the child as the walk left it.
Lift(r, Put(_)) == [r EXCEPT !.ast = Put(r.ast)]
\* `walk(child)?; rest`: after an error the parent keeps what the walk did to
\* the child and the rest is not run.
Try(r, Put(_), Rest(_)) == IF r.ok THEN Rest(Put(r.ast)) ELSE Lift(r, Put)

(***************************************************************************)
(* Property positions                                                      *)
(***************************************************************************)
substitute_in_property_value(value, params) ==
    IF value.t = "Parameter"
    THEN LET param_value == parameters_get(params, value.name) IN
         IF param_value = None
         THEN Err(value, MissingParameterMessage(value.name),
                  Culprit(value.name, "property"))
         ELSE LET r == json_to_property_value(param_value[1]) IN
              IF r.ok THEN Ok(r.pv)
              ELSE Err(value, r.message, Culprit(value.name, "property"))
    ELSE Ok(value)

\* HashMap::values_mut of a pattern's properties: the keys in the order the
\* map's hasher puts them.
values_mut(properties, h) == SelectSeq(h, LAMBDA k : k \in DOMAIN properties)

\* `for value in properties.values_mut() { substitute_in_property_value(value)?; }`
RECURSIVE substitute_in_properties(_, _, _, _)
substitute_in_properties(properties, params, order, i) ==
    IF i > Len(order) THEN Ok(properties)
    ELSE Try(substitute_in_property_value(properties[order[i]], params),
             LAMBDA v : [properties EXCEPT ![order[i]] = v],
             LAMBDA p1 : substitute_in_properties(p1, params, order, i + 1))

substitute_in_node_pattern(node, params, h) ==
    Lift(substitute_in_properties(node.properties, params,
                                  values_mut(node.properties, h), 1),
         LAMBDA p : [node EXCEPT !.properties = p])

substitute_in_relationship_pattern(rel, params, h) ==
    Lift(substitute_in_properties(rel.properties, params,
                                  values_mut(rel.properties, h), 1),
         LAMBDA p : [rel EXCEPT !.properties = p])

\* `for segment in &mut path.segments { relationship?; end_node?; }`
RECURSIVE substitute_in_segments(_, _, _, _)
substitute_in_segments(segments, params, h, i) ==
    IF i > Len(segments) THEN Ok(segments)
    ELSE Try(substitute_in_relationship_pattern(segments[i].relationship, params, h),
             LAMBDA rel : [segments EXCEPT ![i].relationship = rel],
             LAMBDA s1 :
                 Try(substitute_in_node_pattern(s1[i].end_node, params, h),
                     LAMBDA n : [s1 EXCEPT ![i].end_node = n],
                     LAMBDA s2 : substitute_in_segments(s2, params, h, i + 1)))

substitute_in_graph_pattern(pattern, params, h) ==
    CASE pattern.g = "Node" ->
            Lift(substitute_in_properties(pattern.node.properties, params,
                                          values_mut(pattern.node.properties, h), 1),
                 LAMBDA p : [pattern EXCEPT !.node.properties = p])
      [] pattern.g = "Path" ->
            Try(substitute_in_node_pattern(pattern.path.start_node, params, h),
                LAMBDA n : [pattern EXCEPT !.path.start_node = n],
                LAMBDA p1 :
                    Lift(substitute_in_segments(p1.path.segments, params, h, 1),
                         LAMBDA s : [p1 EXCEPT !.path.segments = s]))

\* `for pattern in &mut match_clause.patterns { substitute_in_graph_pattern?; }`
RECURSIVE substitute_in_patterns(_, _, _, _)
substitute_in_patterns(patterns, params, h, i) ==
    IF i > Len(patterns) THEN Ok(patterns)
    ELSE Try(substitute_in_graph_pattern(patterns[i], params, h),
             LAMBDA g : [patterns EXCEPT ![i] = g],
             LAMBDA p1 : substitute_in_patterns(p1, params, h, i + 1))

(***************************************************************************)
(* Expression Walker                                                       *)
(***************************************************************************)
RECURSIVE substitute_in_value_expression(_, _)
RECURSIVE substitute_in_operands(_, _)
RECURSIVE substitute_in_value_expressions(_, _, _)
RECURSIVE substitute_in_boolean_expression(_, _)

\* The ValueExpression::Parameter arm.
substitute_parameter_expression(expr, params) ==
    LET param_value == parameters_get(params, expr.name) IN
    IF param_value = None
    THEN Err(expr, MissingParameterMessage(expr.name),
             Culprit(expr.name, "value_expression"))
    ELSE IF param_value[1].j = "Array"
    THEN LET floats == array_to_floats(param_value[1].arr, 1, <<>>) IN
         IF floats = None
         THEN Err(expr, InvalidListMessage(expr.name),
                  Culprit(expr.name, "value_expression"))
         ELSE Ok(VectorLiteral(floats[1]))
    ELSE LET r == json_to_property_value(param_value[1]) IN
         IF r.ok THEN Ok(Literal(r.pv))
         ELSE Err(expr, r.message, Culprit(expr.name, "value_expression"))

\* The arms with a left and a right value expression: left?; right?.
substitute_in_operands(expr, params) ==
    Try(substitute_in_value_expression(expr.left, params),
        LAMBDA l : [expr EXCEPT !.left = l],
        LAMBDA e1 :
            Lift(substitute_in_value_expression(e1.right, params),
                 LAMBDA r : [e1 EXCEPT !.right = r]))

substitute_in_value_expression(expr, params) ==
    CASE expr.e = "Parameter" -> substitute_parameter_expression(expr, params)
      [] expr.e \in {"ScalarFunction", "AggregateFunction"} ->
            Lift(substitute_in_value_expressions(expr.args, params, 1),
                 LAMBDA a : [expr EXCEPT !.args = a])
      [] expr.e = "Arithmetic" -> substitute_in_operands(expr, params)
      [] expr.e \in {"VectorDistance", "VectorSimilarity"} ->
            substitute_in_operands(expr, params)
      [] OTHER -> Ok(expr)

\* Mutant of substitute_in_value_expressions: the substituted element is
\* written back at the index counted from the end of the list.
RECURSIVE substitute_in_value_expressions_mirrored(_, _, _)
substitute_in_value_expressions_mirrored(exprs, params, i) ==
    IF i > Len(exprs) THEN Ok(exprs)
    ELSE Try(substitute_in_value_expression(exprs[i], params),
             LAMBDA x : [exprs EXCEPT ![Len(exprs) + 1 - i] = x],
             LAMBDA e1 : substitute_in_value_expressions_mirrored(e1, params, i + 1))

\* `for arg in args { substitute_in_value_expression(arg)?; }`, also the loop
\* over the candidates of an IN list.
substitute_in_value_expressions(exprs, params, i) ==
    IF i > Len(exprs) THEN Ok(exprs)
    ELSE Try(substitute_in_value_expression(exprs[i], params),
             LAMBDA x : [exprs EXCEPT ![i] = x],
             LAMBDA e1 : substitute_in_value_expressions(e1, params, i + 1))

substitute_in_boolean_expression(expr, params) ==
    CASE expr.b = "Comparison" -> substitute_in_operands(expr, params)
      [] expr.b \in {"And", "Or"} ->
            Try(substitute_in_boolean_expression(expr.left, params),
                LAMBDA l : [expr EXCEPT !.left = l],
                LAMBDA e1 :
                    Lift(substitute_in_boolean_expression(e1.right, params),
                         LAMBDA r : [e1 EXCEPT !.right = r]))
      [] expr.b = "Not" ->
            Lift(substitute_in_boolean_expression(expr.inner, params),
                 LAMBDA x : [expr EXCEPT !.inner = x])
      [] expr.b = "Exists" -> Ok(expr)
      [] expr.b = "In" ->
            Try(substitute_in_value_expression(expr.expression, params),
                LAMBDA x : [expr EXCEPT !.expression = x],
                LAMBDA e1 :
                    Lift(substitute_in_value_expressions(e1.list, params, 1),
                         LAMBDA l : [e1 EXCEPT !.list = l]))
      [] expr.b \in {"Like", "ILike", "Contains", "StartsWith", "EndsWith",
                     "IsNull", "IsNotNull"} ->
            Lift(substitute_in_value_expression(expr.expression, params),
                 LAMBDA x : [expr EXCEPT !.expression = x])

(***************************************************************************)
(* Clause Walker                                                           *)
(***************************************************************************)
substitute_in_reading_clause(clause, params, h) ==
    CASE clause.r = "Match" ->
            Lift(substitute_in_patterns(clause.match_clause.patterns, params, h, 1),
                 LAMBDA p : [clause EXCEPT !.match_clause.patterns = p])
      [] clause.r = "Unwind" ->
            Lift(substitute_in_value_expression(clause.unwind_clause.expression, params),
                 LAMBDA x : [clause EXCEPT !.unwind_clause.expression = x])

\* `for clause in &mut query.reading_clauses { substitute_in_reading_clause?; }`
RECURSIVE substitute_in_reading_clauses(_, _, _, _)
substitute_in_reading_clauses(clauses, params, h, i) ==
    IF i > Len(clauses) THEN Ok(clauses)
    ELSE Try(substitute_in_reading_clause(clauses[i], params, h),
             LAMBDA c : [clauses EXCEPT ![i] = c],
             LAMBDA c1 : substitute_in_reading_clauses(c1, params, h, i + 1))

substitute_in_where_clause(where_clause, params) ==
    Lift(substitute_in_boolean_expression(where_clause.expression, params),
         LAMBDA x : [where_clause EXCEPT !.expression = x])

\* `for item in &mut items { substitute_in_value_expression(&mut item.expression)?; }`
RECURSIVE substitute_in_items(_, _, _)
substitute_in_items(items, params, i) ==
    IF i > Len(items) THEN Ok(items)
    ELSE Try(substitute_in_value_expression(items[i].expression, params),
             LAMBDA x : [items EXCEPT ![i].expression = x],
             LAMBDA i1 : substitute_in_items(i1, params, i + 1))

substitute_in_order_by_clause(order_by, params) ==
    Lift(substitute_in_items(order_by.items, params, 1),
         LAMBDA i : [order_by EXCEPT !.items = i])

substitute_in_with_clause(with_clause, params) ==
    Try(substitute_in_items(with_clause.items, params, 1),
        LAMBDA i : [with_clause EXCEPT !.items = i],
        LAMBDA w1 :
            IF w1.order_by = None THEN Ok(w1)
            ELSE Lift(substitute_in_order_by_clause(w1.order_by[1], params),
                      LAMBDA o : [w1 EXCEPT !.order_by = Some(o)]))

substitute_in_return_clause(return_clause, params) ==
    Lift(substitute_in_items(return_clause.items, params, 1),
         LAMBDA i : [return_clause EXCEPT !.items = i])

(***************************************************************************)
(* substitute_parameters, one operator per step of its body.  Each takes   *)
(* the query and gives the Result of the step with the query as the step   *)
(* leaves it.                                                              *)
(***************************************************************************)
StepReadingClauses(q, params, h) ==
    Lift(substitute_in_reading_clauses(q.reading_clauses, params, h, 1),
         LAMBDA c : [q EXCEPT !.reading_clauses = c])

StepWhereClause(q, params, h) ==
    IF q.where_clause = None THEN Ok(q)
    ELSE Lift(substitute_in_where_clause(q.where_clause[1], params),
              LAMBDA w : [q EXCEPT !.where_clause = Some(w)])

StepWithClause(q, params, h) ==
    IF q.with_clause = None THEN Ok(q)
    ELSE Lift(substitute_in_with_clause(q.with_clause[1], params),
              LAMBDA w : [q EXCEPT !.with_clause = Some(w)])

StepPostWithReadingClauses(q, params, h) ==
    Lift(substitute_in_reading_clauses(q.post_with_reading_clauses, params, h, 1),
         LAMBDA c : [q EXCEPT !.post_with_reading_clauses = c])

StepPostWithWhereClause(q, params, h) ==
    IF q.post_with_where_clause = None THEN Ok(q)
    ELSE Lift(substitute_in_where_clause(q.post_with_where_clause[1], params),
              LAMBDA w : [q EXCEPT !.post_with_where_clause = Some(w)])

StepReturnClause(q, params, h) ==
    Lift(substitute_in_return_clause(q.return_clause, params),
         LAMBDA r : [q EXCEPT !.return_clause = r])

StepOrderBy(q, params, h) ==
    IF q.order_by = None THEN Ok(q)
    ELSE Lift(substitute_in_order_by_clause(q.order_by[1], params),
              LAMBDA o : [q EXCEPT !.order_by = Some(o)])

\* The `?` between the steps: the next step runs only after an Ok.
Then(r, Step(_, _, _), params, h) == IF r.ok THEN Step(r.ast, params, h) ELSE r

\* The whole call as one function of its inputs.
substitute_parameters(q, params, h) ==
    Then(Then(Then(Then(Then(Then(Then(Ok(q),
        StepReadingClauses, params, h),
        StepWhereClause, params, h),
        StepWithClause, params, h),
        StepPostWithReadingClauses, params, h),
        StepPostWithWhereClause, params, h),
        StepReturnClause, params, h),
        StepOrderBy, params, h)

(***************************************************************************)
(* Inputs: the queries and the parameter maps the call is made with.       *)
(***************************************************************************)
\* Parameter values: every scalar shape of serde_json::Value, among them an
\* integer above i64::MAX, a float with an integral value and one without.
Scalars ==
    { JNull, JBool(TRUE), JBool(FALSE),
      JNumber(PosInt(1)), JNumber(PosInt(U64_MAX)), JNumber(NegInt(I64_MIN)),
      JNumber(FloatN(5)), JNumber(FloatN(4)), JString("hi") }

\* Arrays: every array over a number and a string up to the bound, and the
\* two arrays of the specification's examples, [1, 2.5, 3] and [1, "a"].
ArrayElements == { JNumber(FloatN(2^IntBits + 1)), JString("a") }

Arrays ==
    UNION { [1..n -> ArrayElements] : n \in 0..MaxArrayLen }
        \cup { <<JNumber(PosInt(1)), JNumber(FloatN(5)), JNumber(PosInt(3))>>,
               <<JNumber(PosInt(1)), JString("a")>> }

XBindings == {None} \cup { Some(v) : v \in Scalars \cup {JObject} }
                     \cup { Some(JArray(a)) : a \in Arrays }

YBindings == { None, Some(JNumber(PosInt(1))), Some(JArray(<<JString("a")>>)), Some(JObject) }

ParamMap(bx, by) ==
    LET b == [n \in {"x", "y"} |-> IF n = "x" THEN bx ELSE by] IN
    [n \in {k \in {"x", "y"} : b[k] # None} |-> b[n][1]]

ParamMaps == { ParamMap(bx, by) : bx \in XBindings, by \in YBindings }

\* The orders in which a HashMap over the keys "a", "b" can iterate.
Hashers == { <<"a", "b">>, <<"b", "a">> }

X == Parameter("x")
Y == Parameter("y")
N == Variable("n")
NoProps == [k \in {} |-> PVNull]
Props1(k, v) == [n \in {k} |-> v]
PropsAB(va, vb) == [n \in {"a", "b"} |-> IF n = "a" THEN va ELSE vb]

ReadingOptions ==
    << <<>>,
       << Match(<< GNode(NodePattern(PropsAB(PVParameter("x"), PVParameter("y")))) >>) >>,
       << Match(<< GPath(NodePattern(Props1("a", PVParameter("x"))),
                         << Segment(RelationshipPattern(Props1("b", PVParameter("y"))),
                                    NodePattern(Props1("a", PVString("z")))),
                            Segment(RelationshipPattern(NoProps),
                                    NodePattern(Props1("a", PVParameter("y")))) >>) >>) >>,
       << Unwind(X), Match(<< GNode(NodePattern(Props1("a", PVParameter("y")))) >>) >>,
       << Match(<< GNode(NodePattern(Props1("b", PVParameter("y")))),
                   GNode(NodePattern(PropsAB(PVInteger(1), PVParameter("x")))) >>) >> >>

WhereOptions ==
    << None,
       Some(WhereClause(Comparison(X, "=", Y))),
       Some(WhereClause(And(In(Y, <<X, N>>), Not(IsNull(X))))),
       Some(WhereClause(Or(Exists("n.age"), Like(Y, "p%")))) >>

WithOptions ==
    << None,
       Some(WithClause(<< Item(X) >>, None)),
       Some(WithClause(<< Item(ScalarFunction("f", <<Y, X>>)) >>,
                       Some(OrderByClause(<< Item(X) >>)))) >>

PostReadingOptions ==
    << <<>>,
       << Match(<< GNode(NodePattern(Props1("a", PVParameter("y")))) >>) >> >>

PostWhereOptions ==
    << None, Some(WhereClause(IsNotNull(X))) >>

ReturnOptions ==
    << << Item(N) >>,
       << Item(X), Item(Y) >>,
       << Item(Literal(PVParameter("y"))), Item(X) >>,
       << Item(Arithmetic(Y, VectorDistance(X, VectorLiteral(<<2, 4>>)))) >>,
       << Item(AggregateFunction("count", <<X, N, Y>>)), Item(Literal(PVInteger(1))) >> >>

OrderByOptions ==
    << None,
       Some(OrderByClause(<< Item(Y) >>)),
       Some(OrderByClause(<< Item(N), Item(VectorSimilarity(N, X)) >>)) >>

\* How many clauses of a query are not the first (parameter-free) option.
MaxClauses == 2

Choices ==
    { c \in [1..7 -> 1..5] :
        /\ c[1] <= Len(ReadingOptions)
        /\ c[2] <= Len(WhereOptions)
        /\ c[3] <= Len(WithOptions)
        /\ c[4] <= Len(PostReadingOptions)
        /\ c[5] <= Len(PostWhereOptions)
        /\ c[6] <= Len(ReturnOptions)
        /\ c[7] <= Len(OrderByOptions)
        /\ Cardinality({ i \in 1..7 : c[i] # 1 }) <= MaxClauses }

CypherQuery(c) ==
    [ reading_clauses |-> ReadingOptions[c[1]],
      where_clause |-> WhereOptions[c[2]],
      with_clause |-> WithOptions[c[3]],
      post_with_reading_clauses |-> PostReadingOptions[c[4]],
      post_with_where_clause |-> PostWhereOptions[c[5]],
      return_clause |-> ReturnClause(ReturnOptions[c[6]]),
      order_by |-> OrderByOptions[c[7]] ]

Queries == { CypherQuery(c) : c \in Choices }

(***************************************************************************)
(* The state machine: a call of substitute_parameters.                     *)
(***************************************************************************)
Running == [status |-> "running", message |-> <<>>, culprit |-> None]
Failed(r) == [status |-> "err", message |-> r.message, culprit |-> r.culprit]
Succeeded == [status |-> "ok", message |-> <<>>, culprit |-> None]

Init ==
    /\ query \in Queries
    /\ parameters \in ParamMaps
    /\ hasher \in Hashers
    /\ pc = "reading_clauses"
    /\ result = Running
    /\ query0 = query

\* A step that is not the last: its mutation stays, an error returns.
Proceed(r, next) ==
    /\ query' = r.ast
    /\ IF r.ok THEN pc' = next /\ UNCHANGED result
       ELSE pc' = "done" /\ result' = Failed(r)
    /\ UNCHANGED <<parameters, hasher, query0>>

SubstituteReadingClauses ==
    /\ pc = "reading_clauses"
    /\ Proceed(StepReadingClauses(query, parameters, hasher), "where_clause")

SubstituteWhereClause ==
    /\ pc = "where_clause"
    /\ Proceed(StepWhereClause(query, parameters, hasher), "with_clause")

SubstituteWithClause ==
    /\ pc = "with_clause"
    /\ Proceed(StepWithClause(query, parameters, hasher), "post_with_reading_clauses")

SubstitutePostWithReadingClauses ==
    /\ pc = "post_with_reading_clauses"
    /\ Proceed(StepPostWithReadingClauses(query, parameters, hasher), "post_with_where_clause")

SubstitutePostWithWhereClause ==
    /\ pc = "post_with_where_clause"
    /\ Proceed(StepPostWithWhereClause(query, parameters, hasher), "return_clause")

SubstituteReturnClause ==
    /\ pc = "return_clause"
    /\ Proceed(StepReturnClause(query, parameters, hasher), "order_by")

\* The last step, then Ok(()).
SubstituteOrderBy ==
    /\ pc = "order_by"
    /\ LET r == StepOrderBy(query, parameters, hasher) IN
       /\ query' = r.ast
       /\ pc' = "done"
       /\ result' = IF r.ok THEN Succeeded ELSE Failed(r)
    /\ UNCHANGED <<parameters, hasher, query0>>

Next ==
    \/ SubstituteReadingClauses
    \/ SubstituteWhereClause
    \/ SubstituteWithClause
    \/ SubstitutePostWithReadingClauses
    \/ SubstitutePostWithWhereClause
    \/ SubstituteReturnClause
    \/ SubstituteOrderBy

Spec == Init /\ [][Next]_vars

(***************************************************************************)
(* Vocabulary of the properties.                                           *)
(*                                                                         *)
(* Leaves(q, h) lists, in the documented traversal order, the places of a  *)
(* query where a parameter reference can stand: the property values of     *)
(* the node and relationship patterns and the leaves of the value          *)
(* expressions.  Substitution keeps the shape of the tree, so the leaves   *)
(* of the query before and after a call line up index by index.            *)
(***************************************************************************)
PropertyLeaf(pv) == [pos |-> "property", node |-> pv]
ExpressionLeaf(x) == [pos |-> "value_expression", node |-> x]

RECURSIVE ConcatAll(_, _)
ConcatAll(seqs, i) == IF i > Len(seqs) THEN <<>> ELSE seqs[i] \o ConcatAll(seqs, i + 1)

RECURSIVE ValueLeaves(_)
ValueLeaves(x) ==
    CASE x.e \in {"ScalarFunction", "AggregateFunction"} ->
            ConcatAll([k \in 1..Len(x.args) |-> ValueLeaves(x.args[k])], 1)
      [] x.e \in {"Arithmetic", "VectorDistance", "VectorSimilarity"} ->
            ValueLeaves(x.left) \o ValueLeaves(x.right)
      [] OTHER -> << ExpressionLeaf(x) >>

RECURSIVE BooleanLeaves(_)
BooleanLeaves(x) ==
    CASE x.b = "Comparison" -> ValueLeaves(x.left) \o ValueLeaves(x.right)
      [] x.b \in {"And", "Or"} -> BooleanLeaves(x.left) \o BooleanLeaves(x.right)
      [] x.b = "Not" -> BooleanLeaves(x.inner)
      [] x.b = "Exists" -> <<>>
      [] x.b = "In" ->
            ValueLeaves(x.expression)
                \o ConcatAll([k \in 1..Len(x.list) |-> ValueLeaves(x.list[k])], 1)
      [] OTHER -> ValueLeaves(x.expression)

PropertiesLeaves(props, h) ==
    LET order == SelectSeq(h, LAMBDA k : k \in DOMAIN props) IN
    [k \in 1..Len(order) |-> PropertyLeaf(props[order[k]])]

SegmentLeaves(seg, h) ==
    PropertiesLeaves(seg.relationship.properties, h)
        \o PropertiesLeaves(seg.end_node.properties, h)

PatternLeaves(pat, h) ==
    IF pat.g = "Node" THEN PropertiesLeaves(pat.node.properties, h)
    ELSE PropertiesLeaves(pat.path.start_node.properties, h)
            \o ConcatAll([k \in 1..Len(pat.path.segments) |->
                            SegmentLeaves(pat.path.segments[k], h)], 1)

ReadingLeaves(clause, h) ==
    IF clause.r = "Match"
    THEN ConcatAll([k \in 1..Len(clause.match_clause.patterns) |->
                      PatternLeaves(clause.match_clause.patterns[k], h)], 1)
    ELSE ValueLeaves(clause.unwind_clause.expression)

ItemsLeaves(items) ==
    ConcatAll([k \in 1..Len(items) |-> ValueLeaves(items[k].expression)], 1)

OptionLeaves(opt, Of(_)) == IF opt = None THEN <<>> ELSE Of(opt[1])

Leaves(q, h) ==
    ConcatAll([k \in 1..Len(q.reading_clauses) |-> ReadingLeaves(q.reading_clauses[k], h)], 1)
    \o OptionLeaves(q.where_clause, LAMBDA w : BooleanLeaves(w.expression))
    \o OptionLeaves(q.with_clause,
                    LAMBDA w : ItemsLeaves(w.items)
                                 \o OptionLeaves(w.order_by, LAMBDA o : ItemsLeaves(o.items)))
    \o ConcatAll([k \in 1..Len(q.post_with_reading_clauses) |->
                    ReadingLeaves(q.post_with_reading_clauses[k], h)], 1)
    \o OptionLeaves(q.post_with_where_clause, LAMBDA w : BooleanLeaves(w.expression))
    \o ItemsLeaves(q.return_clause.items)
    \o OptionLeaves(q.order_by, LAMBDA o : ItemsLeaves(o.items))

\* A parameter reference in a property position or in a value-expression
\* position.
IsParameterLeaf(l) ==
    \/ l.pos = "property" /\ l.node.t = "Parameter"
    \/ l.pos = "value_expression" /\ l.node.e = "Parameter"

\* A parameter reference held, as a property value, inside a literal value
\* expression.
HoldsParameter(l) ==
    /\ l.pos = "value_expression"
    /\ l.node.e = "Literal"
    /\ l.node.value.t = "Parameter"

\* A parameter reference of any of the three kinds.
IsReference(l) == IsParameterLeaf(l) \/ HoldsParameter(l)

LeafName(l) == IF HoldsParameter(l) THEN l.node.value.name ELSE l.node.name

\* The leaf stands where only the scalar coercion applies.
ScalarOnly(l) == l.pos = "property" \/ HoldsParameter(l)

IsScalar(v) == v.j \in {"Null", "Bool", "Number", "String"}
AllNumbers(arr) == \A k \in 1..Len(arr) : arr[k].j = "Number"

\* The reference cannot be substituted with this parameter map (section 7
\* of the specification).
Unresolvable(l, params) ==
    \/ LeafName(l) \notin DOMAIN params
    \/ LET v == params[LeafName(l)] IN
       \/ v.j = "Object"
       \/ v.j = "Array" /\ (ScalarOnly(l) \/ ~AllNumbers(v.arr))

\* The error the reference raises.
MissingText(name) == <<"Missing parameter: $", name>>
InvalidListText(name) ==
    <<"Parameter $", name,
      " is a list but contains non-numeric values. Only float vectors are supported as list parameters currently.">>
ComplexText ==
    <<"Complex types (List, Map) are not fully supported as parameters yet (except float vectors).">>

ExpectedError(l, params) ==
    IF LeafName(l) \notin DOMAIN params THEN MissingText(LeafName(l))
    ELSE IF params[LeafName(l)].j = "Array" /\ ~ScalarOnly(l)
    THEN InvalidListText(LeafName(l))
    ELSE ComplexText

Min(S) == CHOOSE m \in S : \A k \in S : m <= k

Done == pc = "done"
Failure == pc = "done" /\ result.status = "err"
Success == pc = "done" /\ result.status = "ok"

\* The value a reference is bound to.
Bound(l) == parameters[LeafName(l)]
IsBound(l) == LeafName(l) \in DOMAIN parameters

(***************************************************************************)
(* C1                                                                      *)
(***************************************************************************)
\* C1: after a successful call no parameter reference remains anywhere in
\* the tree: not as a value expression, not as a property value of a node or
\* relationship pattern, not as a property value held inside a literal.
C1_NoParameterRemains ==
    Success =>
        LET L1 == Leaves(query, hasher) IN
        \A i \in DOMAIN L1 : ~IsReference(L1[i])

(***************************************************************************)
(* C2                                                                      *)
(***************************************************************************)
\* C2: a query that references, in a property or value-expression position,
\* a name the parameter map lacks fails; when that reference is the first
\* unresolvable one in traversal order the message is 'Missing parameter: $x',
\* whatever the shapes of the other values.
C2_MissingParameterReported ==
    Done =>
        LET L0 == Leaves(query0, hasher)
            missing == { i \in DOMAIN L0 : IsParameterLeaf(L0[i]) /\ ~IsBound(L0[i]) }
            bad == { i \in DOMAIN L0 :
                        IsParameterLeaf(L0[i]) /\ Unresolvable(L0[i], parameters) }
        IN  missing # {} =>
                /\ result.status = "err"
                /\ Min(bad) \in missing =>
                      result.message = <<"Missing parameter: $", LeafName(L0[Min(bad)])>>

\* A call failed on the missing x after it had substituted the bound y.
C2_Witness ==
    /\ Failure
    /\ result.message = <<"Missing parameter: $", "x">>
    /\ "y" \in DOMAIN parameters
    /\ query # query0

(***************************************************************************)
(* C3                                                                      *)
(***************************************************************************)
\* The value of a JSON number, in halves.
MathHalves(n) == IF n.repr = "Float" THEN n.v ELSE 2 * n.v

\* The table as claimed: a number whose value is a 64-bit signed integer
\* becomes that integer, any other number a float.
ClaimedTable(v, pv) ==
    CASE v.j = "Null" -> pv = PVNull
      [] v.j = "Bool" -> pv = PVBoolean(v.b)
      [] v.j = "Number" ->
            IF /\ MathHalves(v.n) % 2 = 0
               /\ I64_MIN <= MathHalves(v.n) \div 2
               /\ MathHalves(v.n) \div 2 <= I64_MAX
            THEN pv = PVInteger(MathHalves(v.n) \div 2)
            ELSE pv.t = "Float"
      [] v.j = "String" -> pv = PVString(v.s)

\* The table as the code has it: a number held as an integer that fits i64
\* becomes that integer; an integer above i64::MAX and every floating-point
\* number, whatever its value, becomes a float.
IntegerReprTable(v, pv) ==
    CASE v.j = "Null" -> pv = PVNull
      [] v.j = "Bool" -> pv = PVBoolean(v.b)
      [] v.j = "Number" ->
            IF v.n.repr \in {"PosInt", "NegInt"} /\ I64_MIN <= v.n.v /\ v.n.v <= I64_MAX
            THEN pv = PVInteger(v.n.v)
            ELSE pv.t = "Float"
      [] v.j = "String" -> pv = PVString(v.s)

\* A reference bound to a scalar never raises the error, is replaced when the
\* call succeeds, and is replaced by what the table says.
ScalarCoercion(Table(_, _)) ==
    Done =>
        LET L0 == Leaves(query0, hasher)
            L1 == Leaves(query, hasher)
        IN  /\ Failure =>
                \/ result.culprit[1].name \notin DOMAIN parameters
                \/ ~IsScalar(parameters[result.culprit[1].name])
            /\ \A i \in DOMAIN L0 :
                  (IsParameterLeaf(L0[i]) /\ IsBound(L0[i]) /\ IsScalar(Bound(L0[i]))) =>
                      /\ Success => ~IsParameterLeaf(L1[i])
                      /\ ~IsParameterLeaf(L1[i]) =>
                            IF L0[i].pos = "property"
                            THEN Table(Bound(L0[i]), L1[i].node)
                            ELSE /\ L1[i].node.e = "Literal"
                                 /\ Table(Bound(L0[i]), L1[i].node.value)

\* C3 as stated: scalar substitution never fails and follows the coercion
\* table, where a number representable as a 64-bit signed integer becomes the
\* integer literal of the same value and any other number a float literal.
C3_CoercionTableAsClaimed == ScalarCoercion(ClaimedTable)

\* C3 amended: as above, with the integer literal for the numbers the JSON
\* value holds as integers that fit i64, and a float literal for the others,
\* among them the floating-point numbers with an integral value (2.0).
C3_CoercionTable == ScalarCoercion(IntegerReprTable)

\* A successful call replaced $x, bound to the float 2.0, by a float literal
\* in an expression position and $y, bound to 1, by an integer literal in a
\* property position.
C3_Witness ==
    /\ Success
    /\ LET L0 == Leaves(query0, hasher)
           L1 == Leaves(query, hasher)
       IN  /\ \E i \in DOMAIN L0 :
                /\ L0[i] = ExpressionLeaf(Parameter("x"))
                /\ L1[i] = ExpressionLeaf(Literal(PVFloat(4)))
           /\ \E i \in DOMAIN L0 :
                /\ L0[i] = PropertyLeaf(PVParameter("y"))
                /\ L1[i] = PropertyLeaf(PVInteger(1))
    /\ parameters["x"] = JNumber(FloatN(4))

(***************************************************************************)
(* C4                                                                      *)
(***************************************************************************)
\* C4: in a value-expression position a reference bound to an array becomes
\* a float-vector literal with the same number of elements in the same order
\* exactly when every element is a number (the empty array included);
\* otherwise the call fails there with the invalid-list error naming it.
C4_VectorCoercion ==
    Done =>
        LET L0 == Leaves(query0, hasher)
            L1 == Leaves(query, hasher)
        IN  /\ \A i \in DOMAIN L0 :
                  (/\ L0[i].pos = "value_expression"
                   /\ L0[i].node.e = "Parameter"
                   /\ IsBound(L0[i])
                   /\ Bound(L0[i]).j = "Array") =>
                      LET arr == Bound(L0[i]).arr IN
                      /\ Success => ~IsParameterLeaf(L1[i])
                      /\ ~IsParameterLeaf(L1[i]) =>
                            /\ AllNumbers(arr)
                            /\ L1[i].node.e = "VectorLiteral"
                            /\ Len(L1[i].node.floats) = Len(arr)
                            /\ \A k \in 1..Len(arr) :
                                  L1[i].node.floats[k] = F32(MathHalves(arr[k].n))
            /\ (/\ Failure
                /\ result.culprit[1].position = "value_expression"
                /\ result.culprit[1].name \in DOMAIN parameters
                /\ parameters[result.culprit[1].name].j = "Array") =>
                      /\ ~AllNumbers(parameters[result.culprit[1].name].arr)
                      /\ result.message =
                           <<"Parameter $", result.culprit[1].name,
                             " is a list but contains non-numeric values. Only float vectors are supported as list parameters currently.">>

\* A successful call replaced $x, bound to [1, 2.5, 3], by the vector literal
\* [1.0, 2.5, 3.0].
C4_Witness ==
    /\ Success
    /\ "x" \in DOMAIN parameters
    /\ parameters["x"] = JArray(<<JNumber(PosInt(1)), JNumber(FloatN(5)), JNumber(PosInt(3))>>)
    /\ LET L0 == Leaves(query0, hasher)
           L1 == Leaves(query, hasher)
       IN  \E i \in DOMAIN L0 :
              /\ L0[i] = ExpressionLeaf(Parameter("x"))
              /\ L1[i] = ExpressionLeaf(VectorLiteral(<<2, 5, 6>>))

(***************************************************************************)
(* C5                                                                      *)
(***************************************************************************)
\* C5: in a property position a reference bound to an array (even an
\* all-numeric one) or to an object is never replaced and the call fails,
\* there with the unsupported-complex error; an object in a value-expression
\* position fails with the same error.
C5_ComplexRejected ==
    Done =>
        LET L0 == Leaves(query0, hasher)
            L1 == Leaves(query, hasher)
        IN  /\ \A i \in DOMAIN L0 :
                  (/\ IsParameterLeaf(L0[i])
                   /\ IsBound(L0[i])
                   /\ \/ Bound(L0[i]).j = "Object"
                      \/ L0[i].pos = "property" /\ Bound(L0[i]).j = "Array") =>
                      /\ L1[i] = L0[i]
                      /\ result.status = "err"
            /\ (/\ Failure
                /\ result.culprit[1].name \in DOMAIN parameters
                /\ \/ parameters[result.culprit[1].name].j = "Object"
                   \/ /\ result.culprit[1].position = "property"
                      /\ parameters[result.culprit[1].name].j = "Array") =>
                      result.message =
                        <<"Complex types (List, Map) are not fully supported as parameters yet (except float vectors).">>

\* A call failed with the complex-type error on a property bound to an
\* all-numeric array.
C5_Witness ==
    /\ Failure
    /\ result.culprit[1] = Culprit("x", "property")
    /\ "x" \in DOMAIN parameters
    /\ parameters["x"] = JArray(<<JNumber(PosInt(1)), JNumber(FloatN(5)), JNumber(PosInt(3))>>)
    /\ result.message = ComplexText

(***************************************************************************)
(* C6                                                                      *)
(***************************************************************************)
\* C6: every error carries a message that names the parameter whose
\* substitution failed.
C6_ErrorNamesParameter ==
    Failure => \E k \in DOMAIN result.message : result.message[k] = result.culprit[1].name

(***************************************************************************)
(* C7                                                                      *)
(***************************************************************************)
\* The first reference, among those Ref picks, that cannot be substituted
\* raises the error of the call.
FirstUnresolvableRaises(Ref(_)) ==
    Done =>
        LET L0 == Leaves(query0, hasher)
            bad == { i \in DOMAIN L0 : Ref(L0[i]) /\ Unresolvable(L0[i], parameters) }
        IN  bad # {} =>
                /\ result.status = "err"
                /\ result.message = ExpectedError(L0[Min(bad)], parameters)

\* C7: when several parameter references cannot be substituted, the error
\* returned is that of the reference that comes first in the traversal
\* order (clauses in their fixed order, start node then each segment's
\* relationship and end node, left before right, probe before candidates,
\* lists in order).
C7_FirstErrorInTraversalOrder == FirstUnresolvableRaises(IsReference)

\* The same over the references in property and value-expression positions
\* only, leaving out those held inside a literal.
FirstErrorAmongWalkedReferences == FirstUnresolvableRaises(IsParameterLeaf)

(***************************************************************************)
(* C8                                                                      *)
(***************************************************************************)
\* After a failure there is a failing reference (a leaf of the culprit's name
\* and position) such that every reference Ref picks before it is replaced
\* and every leaf from it on is as in the input.
MutatedUpToFailure(Ref(_)) ==
    Failure =>
        LET L0 == Leaves(query0, hasher)
            L1 == Leaves(query, hasher)
        IN  /\ Len(L1) = Len(L0)
            /\ \E f \in DOMAIN L0 :
                  /\ IsParameterLeaf(L0[f])
                  /\ LeafName(L0[f]) = result.culprit[1].name
                  /\ L0[f].pos = result.culprit[1].position
                  /\ \A i \in 1..(f - 1) : Ref(L0[i]) => ~IsReference(L1[i])
                  /\ \A i \in f..Len(L0) : L1[i] = L0[i]

\* C8: when the call fails, every parameter reference before the failing one
\* in traversal order has been replaced by its literal or vector literal; the
\* failing reference and every one after it are as in the input.
C8_MutatedUpToFailure == MutatedUpToFailure(IsReference)

\* The same over the references in property and value-expression positions
\* only, leaving out those held inside a literal.
WalkedReferencesMutatedUpToFailure == MutatedUpToFailure(IsParameterLeaf)

(***************************************************************************)
(* C9                                                                      *)
(***************************************************************************)
\* a is the value expression b with, at most, parameter references replaced
\* by literals or vector literals.
RECURSIVE SameValueExpression(_, _)
SameValueExpression(a, b) ==
    CASE b.e = "Parameter" -> a.e \in {"Parameter", "Literal", "VectorLiteral"}
      [] b.e \in {"ScalarFunction", "AggregateFunction"} ->
            /\ a.e = b.e
            /\ a.name = b.name
            /\ Len(a.args) = Len(b.args)
            /\ \A k \in 1..Len(b.args) : SameValueExpression(a.args[k], b.args[k])
      [] b.e \in {"Arithmetic", "VectorDistance", "VectorSimilarity"} ->
            /\ a.e = b.e
            /\ SameValueExpression(a.left, b.left)
            /\ SameValueExpression(a.right, b.right)
      [] OTHER -> a = b

RECURSIVE SameBooleanExpression(_, _)
SameBooleanExpression(a, b) ==
    CASE b.b = "Comparison" ->
            /\ a.b = b.b
            /\ a.operator = b.operator
            /\ SameValueExpression(a.left, b.left)
            /\ SameValueExpression(a.right, b.right)
      [] b.b \in {"And", "Or"} ->
            /\ a.b = b.b
            /\ SameBooleanExpression(a.left, b.left)
            /\ SameBooleanExpression(a.right, b.right)
      [] b.b = "Not" -> a.b = b.b /\ SameBooleanExpression(a.inner, b.inner)
      [] b.b = "Exists" -> a = b
      [] b.b = "In" ->
            /\ a.b = b.b
            /\ SameValueExpression(a.expression, b.expression)
            /\ Len(a.list) = Len(b.list)
            /\ \A k \in 1..Len(b.list) : SameValueExpression(a.list[k], b.list[k])
      [] b.b \in {"Like", "Contains"} ->
            /\ a.b = b.b
            /\ a.pattern = b.pattern
            /\ SameValueExpression(a.expression, b.expression)
      [] OTHER -> a.b = b.b /\ SameValueExpression(a.expression, b.expression)

SameProperties(a, b) ==
    /\ DOMAIN a = DOMAIN b
    /\ \A k \in DOMAIN b : b[k].t # "Parameter" => a[k] = b[k]

SamePattern(a, b) ==
    /\ a.g = b.g
    /\ IF b.g = "Node" THEN SameProperties(a.node.properties, b.node.properties)
       ELSE /\ SameProperties(a.path.start_node.properties, b.path.start_node.properties)
            /\ Len(a.path.segments) = Len(b.path.segments)
            /\ \A k \in 1..Len(b.path.segments) :
                  /\ SameProperties(a.path.segments[k].relationship.properties,
                                    b.path.segments[k].relationship.properties)
                  /\ SameProperties(a.path.segments[k].end_node.properties,
                                    b.path.segments[k].end_node.properties)

SameReadingClauses(a, b) ==
    /\ Len(a) = Len(b)
    /\ \A k \in 1..Len(b) :
          /\ a[k].r = b[k].r
          /\ IF b[k].r = "Unwind"
             THEN SameValueExpression(a[k].unwind_clause.expression,
                                      b[k].unwind_clause.expression)
             ELSE /\ Len(a[k].match_clause.patterns) = Len(b[k].match_clause.patterns)
                  /\ \A n \in 1..Len(b[k].match_clause.patterns) :
                        SamePattern(a[k].match_clause.patterns[n],
                                    b[k].match_clause.patterns[n])

SameItems(a, b) ==
    /\ Len(a) = Len(b)
    /\ \A k \in 1..Len(b) : SameValueExpression(a[k].expression, b[k].expression)

SameOption(a, b, Same(_, _)) ==
    /\ Len(a) = Len(b)
    /\ b # None => Same(a[1], b[1])

SameOrderBy(a, b) == SameOption(a, b, LAMBDA x, y : SameItems(x.items, y.items))
SameWhere(a, b) ==
    SameOption(a, b, LAMBDA x, y : SameBooleanExpression(x.expression, y.expression))

SameQuery(a, b) ==
    /\ SameReadingClauses(a.reading_clauses, b.reading_clauses)
    /\ SameWhere(a.where_clause, b.where_clause)
    /\ SameOption(a.with_clause, b.with_clause,
                  LAMBDA x, y : SameItems(x.items, y.items) /\ SameOrderBy(x.order_by, y.order_by))
    /\ SameReadingClauses(a.post_with_reading_clauses, b.post_with_reading_clauses)
    /\ SameWhere(a.post_with_where_clause, b.post_with_where_clause)
    /\ SameItems(a.return_clause.items, b.return_clause.items)
    /\ SameOrderBy(a.order_by, b.order_by)

\* C9: a successful call changes the tree only at parameter references:
\* clause sequences, argument lists, IN lists and segment sequences keep
\* their length and order and every other node is as in the input; a query
\* with no parameter reference succeeds and is left identical, whatever the
\* parameter map holds.
C9_OnlyParametersChange ==
    /\ Success => SameQuery(query, query0)
    /\ Done =>
         LET L0 == Leaves(query0, hasher) IN
         (\A i \in DOMAIN L0 : ~IsParameterLeaf(L0[i])) =>
             /\ result.status = "ok"
             /\ query = query0

\* A successful call replaced the first and the last argument of a three
\* argument function call and kept the one in the middle.
C9_Witness ==
    /\ Success
    /\ \E i \in DOMAIN query0.return_clause.items :
          /\ query0.return_clause.items[i].expression.e = "AggregateFunction"
          /\ query0.return_clause.items[i].expression.args = <<X, N, Y>>
          /\ query.return_clause.items[i].expression.args[1].e = "VectorLiteral"
          /\ query.return_clause.items[i].expression.args[2] = N
          /\ query.return_clause.items[i].expression.args[3].e = "Literal"

\* A call on a query without any parameter reference, with a map that holds
\* an array and an object, succeeded.
C9_WitnessNoParameters ==
    /\ Success
    /\ query = query0
    /\ DOMAIN parameters = {"x", "y"}
    /\ parameters["x"].j = "Array"
    /\ parameters["y"].j = "Object"

(***************************************************************************)
(* C10                                                                     *)
(***************************************************************************)
\* C10: the outcome (success or the error message) and the final tree are
\* the same for equal queries and equal parameter maps, whatever the order
\* in which the property maps are iterated.
C10_Deterministic ==
    Done =>
        \A h \in Hashers :
            LET r == substitute_parameters(query0, parameters, h) IN
            /\ r.ok = (result.status = "ok")
            /\ r.message = result.message
            /\ r.ast = query

====
